---- MODULE Spec2Model ----
(***************************************************************************)
(* CopyToTcBSDBootFolder.py: upload a TwinCAT boot folder with scp, then   *)
(* run one composed "&&"-joined command list on the TcBSD host with ssh.   *)
(* The model covers the local pipeline of main(), the __main__ guard, the  *)
(* composed remote commands and their effect on the remote host, over      *)
(* several successive invocations against the same host.                   *)
(***************************************************************************)
EXTENDS Integers, Sequences, FiniteSets, TLC

(* ---------------------------------------------------------------- bounds *)

\* number of successive invocations of the script against the same host
MaxRuns == 2
\* number of lines /usr/local/etc/doas.conf holds before the first invocation
MaxConfLines == 1

(* ------------------------------------------------------- names and lines *)

\* Names are sequences of tokens; the tokens ".", "-" and "X" are single
\* characters, every other token stands for a fixed run of ordinary characters.
SingleChars == {".", "-", "X"}

\* default of --username
DefaultUsername == <<"Administrator">>

\* a second account, "tc.op", whose name holds a regex metacharacter
OtherUsername == <<"tc", ".", "op">>

Usernames == {DefaultUsername, OtherUsername}

RootUser == <<"root">>

\* the text the script greps for and appends (same f-string both times)
RuleLine(username) ==
    <<"permit nopass ">> \o username \o <<" cmd TcSysExe", ".", "exe">>

\* lines doas.conf may hold that the script did not write
ForeignLines ==
    { <<"permit nopass ", "tc", "-", "op", " cmd TcSysExe", ".", "exe">>,
      <<"# ">> \o RuleLine(DefaultUsername),
      <<"permit :wheel">> }

ConfLines == {RuleLine(u) : u \in Usernames} \cup ForeignLines

RECURSIVE SeqsUpTo(_, _)
SeqsUpTo(S, n) ==
    IF n = 0 THEN {<<>>}
    ELSE LET shorter == SeqsUpTo(S, n - 1)
         IN  shorter \cup {Append(s, x) : s \in shorter, x \in S}

(* ---------------------------------------------------- grep -q 'pattern' *)

\* one pattern character against one text character: "." matches any character
TokMatch(p, c) == p = c \/ (p = "." /\ c \in SingleChars)

MatchAt(pattern, line, off) ==
    \A i \in 1..Len(pattern) : TokMatch(pattern[i], line[off + i])

\* grep selects a line when the pattern matches anywhere in it
GrepLine(pattern, line) ==
    \E off \in 0..(Len(line) - Len(pattern)) : MatchAt(pattern, line, off)

\* faulty variant: the pattern is never found
GrepStatus_NeverFound(pattern, exists, file) == IF ~exists THEN 2 ELSE 1

\* exit status of  grep -q pattern file 2>/dev/null
GrepStatus(pattern, exists, file) ==
    IF ~exists THEN 2
    ELSE IF \E k \in 1..Len(file) : GrepLine(pattern, file[k]) THEN 0
    ELSE 1

RECURSIVE CountLine(_, _)
CountLine(line, file) ==
    IF file = <<>> THEN 0
    ELSE (IF Head(file) = line THEN 1 ELSE 0) + CountLine(line, Tail(file))

(* ------------------------------------------------ the composed commands *)

MkdirOp   == "if [ ! -d dest ]; then doas mkdir -p dest; fi"
ChownOp   == "if [ owner != Administrator ] || [ group != wheel ]; then doas chown -R Administrator:wheel dest; fi"
ChmodOp   == "if [ ! -w dest ]; then doas chmod -R u+rwxX dest; fi"
CopyOp    == "cd ~/folder && cp -R ./* dest/"
CleanupOp == "cd ~ && rm -rf folder"
RuleOp    == "if ! grep -q rule doas.conf; then echo rule | doas tee -a doas.conf; else echo; fi"
RestartOp == "doas TcSysExe.exe --run"
ModeOp    == "TcSysExe.exe --mode"

Echo(text) == [op |-> "echo", arg |-> <<text>>]

Cmd(op) == [op |-> op, arg |-> <<>>]

\* faulty variant: the progress line before the cleanup is missing
BaseCmds_Short ==
    << Echo("Creating Boot directory if it does not exist..."),
       Cmd(MkdirOp),
       Echo("Checking and fixing Boot folder ownership if needed..."),
       Cmd(ChownOp),
       Echo("Checking and fixing Boot folder write permission if needed..."),
       Cmd(ChmodOp),
       Echo("Copying files..."),
       Cmd(CopyOp),
       Cmd(CleanupOp) >>

\* the ten list elements built unconditionally
BaseCmds ==
    << Echo("Creating Boot directory if it does not exist..."),
       Cmd(MkdirOp),
       Echo("Checking and fixing Boot folder ownership if needed..."),
       Cmd(ChownOp),
       Echo("Checking and fixing Boot folder write permission if needed..."),
       Cmd(ChmodOp),
       Echo("Copying files..."),
       Cmd(CopyOp),
       Echo("Cleaning up temp..."),
       Cmd(CleanupOp) >>

\* cmds += [...] when args.restart; the rule step carries args.username
RestartCmds(username) ==
    << Echo("Checking doas configuration for TcSysExe.exe..."),
       [op |-> RuleOp, arg |-> username],
       Echo("Restarting TwinCAT..."),
       Cmd(RestartOp),
       Echo("Mode:"),
       Cmd(ModeOp) >>

\* faulty variant: the restart command is emitted without --restart
NoRestartCmds_Restarting ==
    << Echo("Skipping restart (use --restart)"),
       Cmd(RestartOp),
       Echo("Mode:"),
       Cmd(ModeOp) >>

\* cmds += [...] otherwise
NoRestartCmds ==
    << Echo("Skipping restart (use --restart)"),
       Echo("Mode:"),
       Cmd(ModeOp) >>

ComposeCmds(restart, username) ==
    BaseCmds \o (IF restart THEN RestartCmds(username) ELSE NoRestartCmds)

\* the commands that run the remote executable
InvokesTcSysExe(c) == c.op \in {RestartOp, ModeOp}

\* positions of the commands with operation op in a command list
Positions(list, op) == {i \in 1..Len(list) : list[i].op = op}

(* ------------------------------------------------------ the local tools *)

NoCode == 0 - 1

\* run_command: the exit code of the tool, or 1 when launching it raises
RunCommand(present, codes) == IF present THEN codes ELSE {1}

SshOk(code) == code \in {0, 255}

ScpOk(code) == code \in {0, 1}

(* ------------------------------------------------ the remote Boot folder *)

FinalDestAbsent ==
    [exists |-> FALSE, owner |-> RootUser, group |-> "wheel", uW |-> FALSE, oW |-> FALSE]

FinalDestStates ==
    {FinalDestAbsent} \cup
    [exists : {TRUE}, owner : {DefaultUsername, RootUser}, group : {"wheel", "operator"},
     uW : BOOLEAN, oW : BOOLEAN]

\* [ -w dest ] for the connecting user: the owner's bit for the owner, the
\* group/other bits for anyone else
Writable(user, d) == d.exists /\ (IF user = d.owner THEN d.uW ELSE d.oW)

\* [ ! -d dest ]
NeedsMkdir(d) == ~d.exists

\* faulty variant: chown unconditionally
NeedsChown_Always(d) == TRUE

\* [ "$(stat -f '%Su' dest)" != 'Administrator' ] || [ "$(stat -f '%Sg' dest)" != 'wheel' ]
NeedsChown(d) == ~d.exists \/ d.owner # <<"Administrator">> \/ d.group # "wheel"

\* [ ! -w dest ]
NeedsChmod(user, d) == ~Writable(user, d)

\* doas mkdir -p: a root-owned directory without write access for others
AfterMkdir(d) ==
    IF d.exists THEN d
    ELSE [exists |-> TRUE, owner |-> RootUser, group |-> "wheel", uW |-> TRUE, oW |-> FALSE]

\* doas chown -R Administrator:wheel
AfterChown(d) == [d EXCEPT !.owner = <<"Administrator">>, !.group = "wheel"]

\* doas chmod -R u+rwxX
AfterChmod(d) == [d EXCEPT !.uW = TRUE]

(* ----------------------------------------------------------------- state *)

VARIABLES
    pc,           \* stage of main(): parse, check_tools, validate, upload, compose, remote, report, exit
    runs,         \* invocations started so far
    env,          \* the local machine: [ssh, scp: tool can be launched, source: the path exists]
    args,         \* parsed flags: [restart, username]
    out,          \* messages printed by this invocation
    exitCode,     \* process exit status, NoCode while running
    uploadCalls,  \* calls of scp -r made by this invocation
    uploadCode,   \* what the scp -r call returned
    remoteCalls,  \* calls of ssh -t made by this invocation
    remoteCode,   \* what the ssh -t call returned
    cmds,         \* the composed command list
    rstep,        \* remote: index of the next command of the list to run, 0 before ssh starts
    rfail,        \* remote: index of the command that returned non-zero, 0 if none
    doasRan,      \* remote: the doas commands this invocation executed
    dest0,        \* the Boot folder as ssh found it
    conf0,        \* the lines of doas.conf as ssh found them
    dest,         \* remote: /usr/local/etc/TwinCAT/3.1/Boot
    tempExists,   \* remote: ~/<folder> exists
    bootCopied,   \* remote: the uploaded files are in the Boot folder
    tcRun,        \* remote: TcSysExe.exe --run was executed
    confExists,   \* remote: /usr/local/etc/doas.conf exists
    conf,         \* remote: its lines
    firstCount    \* per username: copies of its rule line after its first successful --restart run

procVars == <<pc, env, args, out, exitCode, uploadCalls, uploadCode, remoteCalls,
              remoteCode, cmds, rstep, rfail, doasRan, dest0, conf0>>

remoteVars == <<dest, tempExists, bootCopied, tcRun, confExists, conf>>

vars == <<procVars, remoteVars, runs, firstCount>>

Envs == [ssh : BOOLEAN, scp : BOOLEAN, source : BOOLEAN]

\* a fresh process: nothing parsed, called or printed yet
Fresh(e) ==
    /\ pc = "parse"
    /\ env = e
    /\ args = [restart |-> FALSE, username |-> DefaultUsername]
    /\ out = {}
    /\ exitCode = NoCode
    /\ uploadCalls = 0
    /\ uploadCode = NoCode
    /\ remoteCalls = 0
    /\ remoteCode = NoCode
    /\ cmds = <<>>
    /\ rstep = 0
    /\ rfail = 0
    /\ doasRan = {}

Init ==
    /\ \E e \in Envs : Fresh(e)
    /\ runs = 1
    /\ dest \in FinalDestStates
    /\ dest0 = dest
    /\ tempExists = FALSE
    /\ bootCopied = FALSE
    /\ tcRun = FALSE
    /\ confExists \in BOOLEAN
    /\ conf \in (IF confExists THEN SeqsUpTo(ConfLines, MaxConfLines) ELSE {<<>>})
    /\ conf0 = conf
    /\ firstCount = [u \in Usernames |-> NoCode]

(* ------------------------------------------------------- process exits *)

\* print(msgs); sys.exit(code)
Exit(msgs, code) ==
    /\ out' = out \cup msgs
    /\ exitCode' = code
    /\ pc' = "exit"

(* ---------------------------------------------------------------- main() *)

\* parser.parse_args(): -h prints the help and exits 0, a missing required
\* flag prints a usage error and exits 2
ParseArgs ==
    /\ pc = "parse"
    /\ \/ /\ Exit({"usage: help"}, 0)
          /\ UNCHANGED args
       \/ /\ Exit({"usage: error: the following arguments are required"}, 2)
          /\ UNCHANGED args
       \/ /\ \E r \in BOOLEAN, u \in Usernames : args' = [restart |-> r, username |-> u]
          /\ pc' = "check_tools"
          /\ UNCHANGED <<out, exitCode>>
    /\ UNCHANGED <<env, uploadCalls, uploadCode, remoteCalls, remoteCode, cmds,
                   rstep, rfail, doasRan, dest0, conf0, remoteVars, runs, firstCount>>

\* check_ssh_tools(): the message it prints, "" when it returns True
CheckSshTools(sshCode, scpCode) ==
    IF ~SshOk(sshCode) THEN "Error: SSH client not found. Install OpenSSH."
    ELSE IF ~ScpOk(scpCode) THEN "Error: SCP not found. Install OpenSSH."
    ELSE ""

CheckTools ==
    /\ pc = "check_tools"
    /\ \E sshCode \in RunCommand(env.ssh, {0, 255}), scpCode \in RunCommand(env.scp, {0, 1}) :
          LET msg == CheckSshTools(sshCode, scpCode)
          IN  IF msg # ""
              THEN Exit({msg}, 1)
              ELSE /\ pc' = "validate"
                   /\ UNCHANGED <<out, exitCode>>
    /\ UNCHANGED <<env, args, uploadCalls, uploadCode, remoteCalls, remoteCode, cmds,
                   rstep, rfail, doasRan, dest0, conf0, remoteVars, runs, firstCount>>

\* faulty variant: the existence check is skipped
SourceExists_Unchecked(e) == TRUE

\* Path(args.source_path).exists()
SourceExists(e) == e.source

\* if not source.exists(): print error, show_usage(), sys.exit(1)
Validate ==
    /\ pc = "validate"
    /\ IF ~SourceExists(env)
       THEN Exit({"Error: source not found", "Usage Examples:"}, 1)
       ELSE /\ pc' = "upload"
            /\ out' = out \cup {"Configuration:"}
            /\ UNCHANGED exitCode
    /\ UNCHANGED <<env, args, uploadCalls, uploadCode, remoteCalls, remoteCode, cmds,
                   rstep, rfail, doasRan, dest0, conf0, remoteVars, runs, firstCount>>

\* faulty variant: a failed upload is reported but the run goes on
Upload_NoExit ==
    /\ pc = "upload"
    /\ uploadCalls' = uploadCalls + 1
    /\ \E code \in RunCommand(env.scp, {0, 1}), partial \in BOOLEAN :
          /\ uploadCode' = code
          /\ pc' = "compose"
          /\ UNCHANGED exitCode
          /\ IF code # 0
             THEN /\ out' = out \cup {"1) Uploading to remote temp...", "SCP failed"}
                  /\ tempExists' = (tempExists \/ (env.scp /\ partial))
             ELSE /\ out' = out \cup {"1) Uploading to remote temp..."}
                  /\ tempExists' = TRUE
    /\ UNCHANGED <<env, args, remoteCalls, remoteCode, cmds, rstep, rfail, doasRan, dest0, conf0,
                   dest, bootCopied, tcRun, confExists, conf, runs, firstCount>>

\* run_command(["scp", "-r", source, temp_dest])
Upload ==
    /\ pc = "upload"
    /\ uploadCalls' = uploadCalls + 1
    /\ \E code \in RunCommand(env.scp, {0, 1}), partial \in BOOLEAN :
          /\ uploadCode' = code
          /\ IF code # 0
             THEN /\ Exit({"1) Uploading to remote temp...", "SCP failed"}, 1)
                  /\ tempExists' = (tempExists \/ (env.scp /\ partial))
             ELSE /\ pc' = "compose"
                  /\ out' = out \cup {"1) Uploading to remote temp..."}
                  /\ tempExists' = TRUE
                  /\ UNCHANGED exitCode
    /\ UNCHANGED <<env, args, remoteCalls, remoteCode, cmds, rstep, rfail, doasRan, dest0, conf0,
                   dest, bootCopied, tcRun, confExists, conf, runs, firstCount>>

\* cmds = [...]; cmds += [...]
Compose ==
    /\ pc = "compose"
    /\ cmds' = ComposeCmds(args.restart, args.username)
    /\ out' = out \cup {"2) Setting up Boot directory and copying files..."}
    /\ pc' = "remote"
    /\ UNCHANGED <<env, args, exitCode, uploadCalls, uploadCode, remoteCalls, remoteCode,
                   rstep, rfail, doasRan, dest0, conf0, remoteVars, runs, firstCount>>

(* -------------------------------------- ssh -t user@host "c1 && c2 && ..." *)

\* run_command(["ssh", "-t", user@host, full]): the session starts, or ssh
\* itself fails with 255 and nothing runs
SshConnect ==
    /\ pc = "remote"
    /\ rstep = 0
    /\ remoteCalls' = remoteCalls + 1
    /\ \/ /\ rstep' = 1
          /\ dest0' = dest
          /\ conf0' = conf
          /\ UNCHANGED <<pc, remoteCode>>
       \/ /\ remoteCode' = 255
          /\ pc' = "report"
          /\ UNCHANGED <<rstep, dest0, conf0>>
    /\ UNCHANGED <<env, args, out, exitCode, uploadCalls, uploadCode, cmds, rfail,
                   doasRan, remoteVars, runs, firstCount>>

\* the command at rstep is the one to run
Running(op) ==
    /\ pc = "remote"
    /\ rstep \in 1..Len(cmds)
    /\ cmds[rstep].op = op

\* faulty variant: the commands are joined with ";" - a failing command does
\* not stop the list, the last command's status is the session's
StepDone_Semicolon(ok) ==
    /\ rfail' = (IF ok THEN rfail ELSE rstep)
    /\ rstep' = rstep + 1
    /\ IF rstep = Len(cmds)
       THEN remoteCode' = (IF ok THEN 0 ELSE 1) /\ pc' = "report"
       ELSE UNCHANGED <<remoteCode, pc>>

\* " && ".join(cmds): after a zero status the next command runs, the last one
\* ends the session with 0; a non-zero status ends it there with that status
StepDone(ok) ==
    IF ok
    THEN /\ rstep' = rstep + 1
         /\ rfail' = rfail
         /\ IF rstep = Len(cmds)
            THEN remoteCode' = 0 /\ pc' = "report"
            ELSE UNCHANGED <<remoteCode, pc>>
    ELSE /\ rfail' = rstep
         /\ rstep' = rstep
         /\ remoteCode' = 1
         /\ pc' = "report"

\* variables no remote command touches
StepFrame ==
    UNCHANGED <<env, args, out, exitCode, uploadCalls, uploadCode, remoteCalls, cmds,
                dest0, conf0, runs, firstCount>>

StepEcho ==
    /\ Running("echo")
    /\ StepDone(TRUE)
    /\ StepFrame
    /\ UNCHANGED <<doasRan, remoteVars>>

\* if [ ! -d dest ]; then doas mkdir -p dest; fi
StepMkdir ==
    /\ Running(MkdirOp)
    /\ IF NeedsMkdir(dest)
       THEN \E ok \in BOOLEAN :
               /\ doasRan' = doasRan \cup {"mkdir"}
               /\ dest' = IF ok THEN AfterMkdir(dest) ELSE dest
               /\ StepDone(ok)
       ELSE /\ StepDone(TRUE)
            /\ UNCHANGED <<doasRan, dest>>
    /\ StepFrame
    /\ UNCHANGED <<tempExists, bootCopied, tcRun, confExists, conf>>

\* if [ owner wrong ] || [ group wrong ]; then doas chown -R Administrator:wheel dest; fi
StepChown ==
    /\ Running(ChownOp)
    /\ IF NeedsChown(dest)
       THEN \E ok \in BOOLEAN :
               /\ doasRan' = doasRan \cup {"chown"}
               /\ dest' = IF ok /\ dest.exists THEN AfterChown(dest) ELSE dest
               /\ StepDone(ok /\ dest.exists)
       ELSE /\ StepDone(TRUE)
            /\ UNCHANGED <<doasRan, dest>>
    /\ StepFrame
    /\ UNCHANGED <<tempExists, bootCopied, tcRun, confExists, conf>>

\* if [ ! -w dest ]; then doas chmod -R u+rwxX dest; fi
StepChmod ==
    /\ Running(ChmodOp)
    /\ IF NeedsChmod(args.username, dest)
       THEN \E ok \in BOOLEAN :
               /\ doasRan' = doasRan \cup {"chmod"}
               /\ dest' = IF ok /\ dest.exists THEN AfterChmod(dest) ELSE dest
               /\ StepDone(ok /\ dest.exists)
       ELSE /\ StepDone(TRUE)
            /\ UNCHANGED <<doasRan, dest>>
    /\ StepFrame
    /\ UNCHANGED <<tempExists, bootCopied, tcRun, confExists, conf>>

\* cd ~/folder && cp -R ./* dest/ : needs the upload and a writable Boot folder
StepCopy ==
    /\ Running(CopyOp)
    /\ \E ok \in BOOLEAN :
          LET done == ok /\ tempExists /\ Writable(args.username, dest)
          IN  /\ bootCopied' = (bootCopied \/ done)
              /\ StepDone(done)
    /\ StepFrame
    /\ UNCHANGED <<doasRan, dest, tempExists, tcRun, confExists, conf>>

\* faulty variant: the cleanup step removes nothing
StepCleanup_Keep ==
    /\ Running(CleanupOp)
    /\ \E ok \in BOOLEAN : StepDone(ok)
    /\ StepFrame
    /\ UNCHANGED <<doasRan, remoteVars>>

\* cd ~ && rm -rf folder : a failing rm leaves (part of) the upload behind
StepCleanup ==
    /\ Running(CleanupOp)
    /\ \E ok \in BOOLEAN :
          /\ tempExists' = (tempExists /\ ~ok)
          /\ StepDone(ok)
    /\ StepFrame
    /\ UNCHANGED <<doasRan, dest, bootCopied, tcRun, confExists, conf>>

\* if ! grep -q 'rule' doas.conf 2>/dev/null; then echo ... && echo 'rule' | doas tee -a doas.conf;
\* else echo ...; fi      (rule is the text composed from args.username)
StepDoasRule ==
    /\ Running(RuleOp)
    /\ LET rule == RuleLine(cmds[rstep].arg)
       IN  IF GrepStatus(rule, confExists, conf) # 0
           THEN \E ok \in BOOLEAN :
                   /\ doasRan' = doasRan \cup {"tee"}
                   /\ conf' = IF ok THEN Append(conf, rule) ELSE conf
                   /\ confExists' = (confExists \/ ok)
                   /\ StepDone(ok)
           ELSE /\ StepDone(TRUE)
                /\ UNCHANGED <<doasRan, conf, confExists>>
    /\ StepFrame
    /\ UNCHANGED <<dest, tempExists, bootCopied, tcRun>>

\* doas TcSysExe.exe --run
StepRestart ==
    /\ Running(RestartOp)
    /\ \E ok \in BOOLEAN :
          /\ tcRun' = (tcRun \/ ok)
          /\ StepDone(ok)
    /\ doasRan' = doasRan \cup {"TcSysExe.exe"}
    /\ StepFrame
    /\ UNCHANGED <<dest, tempExists, bootCopied, confExists, conf>>

\* TcSysExe.exe --mode
StepMode ==
    /\ Running(ModeOp)
    /\ \E ok \in BOOLEAN : StepDone(ok)
    /\ StepFrame
    /\ UNCHANGED <<doasRan, remoteVars>>

(* ------------------------------------------------------- back in main() *)

\* faulty variant: the failure branch prints but does not sys.exit(1)
Report_NoExitOne ==
    /\ pc = "report"
    /\ IF remoteCode = 0
       THEN Exit({"=== Success ==="}, 0)
       ELSE Exit({"Error: Remote step failed"}, 0)
    /\ firstCount' =
          IF remoteCode = 0 /\ args.restart /\ firstCount[args.username] = NoCode
          THEN [firstCount EXCEPT ![args.username] = CountLine(RuleLine(args.username), conf)]
          ELSE firstCount
    /\ UNCHANGED <<env, args, uploadCalls, uploadCode, remoteCalls, remoteCode, cmds,
                   rstep, rfail, doasRan, dest0, conf0, remoteVars, runs>>

\* if code == 0: print success; else: print error, sys.exit(1)
Report ==
    /\ pc = "report"
    /\ IF remoteCode = 0
       THEN Exit({"=== Success ==="}, 0)
       ELSE Exit({"Error: Remote step failed"}, 1)
    /\ firstCount' =
          IF remoteCode = 0 /\ args.restart /\ firstCount[args.username] = NoCode
          THEN [firstCount EXCEPT ![args.username] = CountLine(RuleLine(args.username), conf)]
          ELSE firstCount
    /\ UNCHANGED <<env, args, uploadCalls, uploadCode, remoteCalls, remoteCode, cmds,
                   rstep, rfail, doasRan, dest0, conf0, remoteVars, runs>>

(* ------------------------------------------------ the __main__ guard *)

\* except KeyboardInterrupt: print("Cancelled by user."); sys.exit(130)
Interrupt ==
    /\ pc # "exit"
    /\ Exit({"Cancelled by user."}, 130)
    /\ UNCHANGED <<env, args, uploadCalls, uploadCode, remoteCalls, remoteCode, cmds,
                   rstep, rfail, doasRan, dest0, conf0, remoteVars, runs, firstCount>>

\* except Exception as e: print("Unexpected error"); sys.exit(1)
\* (run_command swallows what the tools raise, so this comes from main's own
\* statements: a print, Path.exists, Path.resolve)
Unexpected ==
    /\ pc \in {"check_tools", "validate", "upload", "compose", "report"}
    /\ Exit({"Unexpected error"}, 1)
    /\ UNCHANGED <<env, args, uploadCalls, uploadCode, remoteCalls, remoteCode, cmds,
                   rstep, rfail, doasRan, dest0, conf0, remoteVars, runs, firstCount>>

(* ------------------------------------------------- the next invocation *)

\* the script is started again, against the same remote host
Reinvoke ==
    /\ pc = "exit"
    /\ runs < MaxRuns
    /\ runs' = runs + 1
    /\ \E e \in Envs :
          /\ pc' = "parse"
          /\ env' = e
          /\ args' = [restart |-> FALSE, username |-> DefaultUsername]
          /\ out' = {}
          /\ exitCode' = NoCode
          /\ uploadCalls' = 0
          /\ uploadCode' = NoCode
          /\ remoteCalls' = 0
          /\ remoteCode' = NoCode
          /\ cmds' = <<>>
          /\ rstep' = 0
          /\ rfail' = 0
          /\ doasRan' = {}
    /\ dest0' = dest
    /\ conf0' = conf
    /\ UNCHANGED <<remoteVars, firstCount>>

Next ==
    \/ ParseArgs
    \/ CheckTools
    \/ Validate
    \/ Upload
    \/ Compose
    \/ SshConnect
    \/ StepEcho
    \/ StepMkdir
    \/ StepChown
    \/ StepChmod
    \/ StepCopy
    \/ StepCleanup
    \/ StepDoasRule
    \/ StepRestart
    \/ StepMode
    \/ Report
    \/ Interrupt
    \/ Unexpected
    \/ Reinvoke

Spec == Init /\ [][Next]_vars

(* ------------------------------------------------------------ vocabulary *)

Exited == pc = "exit"

\* the command line was accepted by the argument parser
Parsed == pc # "parse" /\ "usage: help" \notin out
                       /\ "usage: error: the following arguments are required" \notin out

Interrupted == "Cancelled by user." \in out

Raised == "Unexpected error" \in out

ToolDiagnostics ==
    {"Error: SSH client not found. Install OpenSSH.", "Error: SCP not found. Install OpenSSH."}

\* what a failing run prints before sys.exit(1)
FailureMessages ==
    ToolDiagnostics \cup
    {"Error: source not found", "SCP failed", "Error: Remote step failed", "Unexpected error"}

\* the index of the command of the composed list with operation op, 0 if none
PositionOf(op) ==
    IF Positions(cmds, op) = {} THEN 0 ELSE CHOOSE i \in Positions(cmds, op) : TRUE

(* -------------------------------------------------------------------- C1 *)

\* C1 (as stated): every accepted invocation whose source path does not exist,
\* and that is not cut short by an interrupt or an exception, prints the
\* source error, shows the usage examples, exits with 1 and never calls scp
\* or ssh for a transfer.
C1_Original ==
    (Exited /\ Parsed /\ ~env.source /\ ~Interrupted /\ ~Raised)
        => /\ "Error: source not found" \in out
           /\ "Usage Examples:" \in out
           /\ exitCode = 1
           /\ uploadCalls = 0
           /\ remoteCalls = 0

\* C1 (amended): with a missing source path no transfer call is ever made and
\* an accepted invocation never exits with 0; when the tool check passed and
\* the run was not cut short, the source error and the usage examples are
\* printed and the exit status is 1.
C1_MissingSource ==
    ~env.source
        => /\ uploadCalls = 0
           /\ remoteCalls = 0
           /\ (Exited /\ Parsed) => exitCode \in {1, 130}
           /\ (Exited /\ Parsed /\ ~Interrupted /\ ~Raised /\ out \cap ToolDiagnostics = {})
                 => /\ "Error: source not found" \in out
                    /\ "Usage Examples:" \in out
                    /\ exitCode = 1

\* a run that reached the source check with the path missing and stopped there
C1_Witness ==
    /\ Exited
    /\ ~env.source
    /\ "Error: source not found" \in out
    /\ "Usage Examples:" \in out
    /\ exitCode = 1

(* -------------------------------------------------------------------- C2 *)

\* C2 (as stated): the exit status is 0, 1 or 130; it is 0 exactly when the
\* upload call and the remote call both returned 0, and 130 exactly when the
\* user interrupted the run.
C2_Original ==
    Exited
        => /\ exitCode \in {0, 1, 130}
           /\ (exitCode = 0) <=> (uploadCode = 0 /\ remoteCode = 0 /\ ~Interrupted /\ ~Raised)
           /\ (exitCode = 130) <=> Interrupted

\* C2 (amended): the exit status is 0, 1, 2 or 130: 2 exactly when the argument
\* parser rejects the command line; 130 exactly when the user interrupts; 0
\* exactly when help was requested or both calls returned 0 and the report was
\* not cut short; 1 exactly when one of the failure messages was printed.
C2_ExitStatus ==
    Exited
        => /\ exitCode \in {0, 1, 2, 130}
           /\ (exitCode = 2) <=> ("usage: error: the following arguments are required" \in out)
           /\ (exitCode = 130) <=> Interrupted
           /\ (exitCode = 0) <=>
                 \/ "usage: help" \in out
                 \/ (uploadCode = 0 /\ remoteCode = 0 /\ ~Interrupted /\ ~Raised)
           /\ (exitCode = 1) <=> (out \cap FailureMessages # {})
           /\ (exitCode = 1 /\ uploadCode = 0 /\ remoteCalls = 1 /\ ~Raised) => remoteCode # 0

\* a run whose remote call returned non-zero and that exited with 1
C2_Witness ==
    /\ Exited
    /\ uploadCode = 0
    /\ remoteCode # 0
    /\ remoteCalls = 1
    /\ exitCode = 1

(* -------------------------------------------------------------------- C3 *)

\* C3: when ssh or scp cannot be launched, the run never gets past the tool
\* check: it prints a tool diagnostic and exits non-zero (unless interrupted
\* first) without validating the source, uploading or running remotely.
C3_ToolCheck ==
    (Parsed /\ (~env.ssh \/ ~env.scp))
        => /\ pc \in {"check_tools", "exit"}
           /\ uploadCalls = 0
           /\ remoteCalls = 0
           /\ (Exited /\ ~Interrupted /\ ~Raised)
                 => (exitCode # 0 /\ out \cap ToolDiagnostics # {})

(* -------------------------------------------------------------------- C4 *)

\* C4: without --restart the composed list holds neither the doas.conf rule
\* step nor the restart command, its only TcSysExe.exe invocation is the mode
\* query, which is its last element, and the run executes neither doas tee nor
\* doas TcSysExe.exe.
C4_NoRestart ==
    (cmds # <<>> /\ ~args.restart)
        => /\ Positions(cmds, RuleOp) = {}
           /\ Positions(cmds, RestartOp) = {}
           /\ {i \in 1..Len(cmds) : InvokesTcSysExe(cmds[i])} = {Len(cmds)}
           /\ cmds[Len(cmds)].op = ModeOp
           /\ doasRan \cap {"tee", "TcSysExe.exe"} = {}

\* a run without --restart whose whole command list ran
C4_Witness ==
    /\ ~args.restart
    /\ cmds # <<>>
    /\ pc = "report"
    /\ remoteCode = 0

(* -------------------------------------------------------------------- C5 *)

\* C5: with --restart the composed list holds the doas.conf rule step exactly
\* once, before the one restart command; a run that finds the rule line of
\* its username in doas.conf appends nothing, any run appends at most that
\* one line; and once a --restart run with a username has succeeded, the
\* number of copies of that username's rule line in doas.conf never changes
\* again, whatever runs follow.
C5_RuleOnceIdempotent ==
    /\ (cmds # <<>> /\ args.restart)
          => /\ Cardinality(Positions(cmds, RuleOp)) = 1
             /\ Cardinality(Positions(cmds, RestartOp)) = 1
             /\ PositionOf(RuleOp) < PositionOf(RestartOp)
             /\ cmds[PositionOf(RuleOp)].arg = args.username
    /\ rstep >= 1
          => /\ conf \in {conf0, Append(conf0, RuleLine(args.username))}
             /\ (confExists /\ CountLine(RuleLine(args.username), conf0) >= 1) => conf = conf0
             /\ ~args.restart => conf = conf0
    /\ \A u \in Usernames :
          firstCount[u] # NoCode => CountLine(RuleLine(u), conf) = firstCount[u]

\* a second --restart run with the same username is about to report success,
\* the first having left the rule line in doas.conf
C5_Witness ==
    /\ runs > 1
    /\ pc = "report"
    /\ remoteCode = 0
    /\ args.restart
    /\ firstCount[args.username] >= 1

(* -------------------------------------------------------------------- C6 *)

\* C6 (as stated): the composed list has 9 elements without --restart and 13
\* with it.
C6_Original ==
    cmds # <<>> => Len(cmds) = (IF args.restart THEN 13 ELSE 9)

\* C6 (amended): the composed list has 13 elements without --restart (ending
\* in the mode query, with no rule step and no restart command) and 16 with
\* --restart (including the rule step and doas TcSysExe.exe --run).
C6_StepCount ==
    cmds # <<>>
        => /\ Len(cmds) = (IF args.restart THEN 16 ELSE 13)
           /\ cmds[Len(cmds)].op = ModeOp
           /\ (Positions(cmds, RuleOp) # {}) <=> args.restart
           /\ (Positions(cmds, RestartOp) # {}) <=> args.restart

\* a --restart run that has composed its list
C6_Witness ==
    /\ pc = "remote"
    /\ args.restart
    /\ Len(cmds) = 16
    /\ Positions(cmds, RestartOp) # {}

(* -------------------------------------------------------------------- C7 *)

\* the Boot folder exists, belongs to Administrator:wheel and is writable by user
DestCorrect(user, d) ==
    /\ d.exists
    /\ d.owner = <<"Administrator">>
    /\ d.group = "wheel"
    /\ Writable(user, d)

\* C7: when ssh finds the Boot folder existing, owned by Administrator:wheel
\* and writable by the connecting user, the run executes none of doas mkdir,
\* doas chown, doas chmod, the folder stays as it was, and none of the three
\* provisioning steps is the one that fails.
C7_ProvisioningNoOp ==
    (rstep >= 1 /\ DestCorrect(args.username, dest0))
        => /\ doasRan \cap {"mkdir", "chown", "chmod"} = {}
           /\ dest = dest0
           /\ rfail \notin (Positions(cmds, MkdirOp) \cup Positions(cmds, ChownOp)
                               \cup Positions(cmds, ChmodOp))
           /\ rfail \notin 1..(PositionOf(CopyOp) - 1)

\* the three provisioning steps were passed on a correct folder: the copy step is next
C7_Witness ==
    /\ pc = "remote"
    /\ rstep >= 1
    /\ DestCorrect(args.username, dest0)
    /\ rstep = PositionOf(CopyOp)

(* -------------------------------------------------------------------- C8 *)

\* C8: once a command of the composed list has returned non-zero, the remote
\* call has returned non-zero, no further command runs and nothing on the
\* remote host changes again in that run (no later step, no rollback of the
\* earlier ones); the program then exits with 1 (130 if the user interrupts
\* the report).
C8_ShortCircuit ==
    /\ [](rfail # 0
            => /\ rfail = rstep
               /\ remoteCode # NoCode
               /\ remoteCode # 0
               /\ pc \in {"report", "exit"}
               /\ "=== Success ===" \notin out
               /\ (Exited /\ ~Interrupted) => exitCode = 1)
    /\ [][(rfail # 0 /\ runs' = runs)
            => /\ rfail' = rfail
               /\ rstep' = rstep
               /\ UNCHANGED <<remoteVars, doasRan>>]_vars

\* the doas chown nested in the ownership step failed after doas mkdir had
\* created the folder: the run exited with 1 and the new folder is still there
C8_Witness ==
    /\ Exited
    /\ exitCode = 1
    /\ rfail = PositionOf(ChownOp)
    /\ "chown" \in doasRan
    /\ ~dest0.exists
    /\ dest.exists

(* -------------------------------------------------------------------- C9 *)

\* stage order as the specification gives it
SpecOrder ==
    { <<"parse", "check_tools">>, <<"check_tools", "validate">>, <<"validate", "compose">>,
      <<"compose", "upload">>, <<"upload", "remote">>, <<"remote", "report">> }

\* stage order of main()
CodeOrder ==
    { <<"parse", "check_tools">>, <<"check_tools", "validate">>, <<"validate", "upload">>,
      <<"upload", "compose">>, <<"compose", "remote">>, <<"remote", "report">> }

\* at most one upload and one remote call per run, the remote call only after
\* the upload returned 0, success only after the remote call returned 0
CallDiscipline ==
    /\ uploadCalls <= 1
    /\ remoteCalls <= 1
    /\ remoteCalls = 1 => (uploadCalls = 1 /\ uploadCode = 0)
    /\ "=== Success ===" \in out => (remoteCalls = 1 /\ remoteCode = 0)

\* C9 (as stated): stages follow parse, check-tools, validate-source,
\* compose-commands, upload, remote-execute, report; every other step of a run
\* leads to a terminal state (a failure state, but for the parser's help exit
\* and the exit after the report).
C9_Original ==
    /\ []CallDiscipline
    /\ [][(pc' # pc /\ runs' = runs)
            => \/ <<pc, pc'>> \in SpecOrder
               \/ pc' = "exit" /\ (exitCode' # 0 \/ pc \in {"parse", "report"})]_vars

\* C9 (amended): stages follow parse, check-tools, validate-source, upload,
\* compose-commands, remote-execute, report (the list is composed after the
\* upload); every other step of a run leads to a terminal state, which is a
\* failure state except for the help exit of the parser.
C9_Pipeline ==
    /\ []CallDiscipline
    /\ [][(pc' # pc /\ runs' = runs)
            => \/ <<pc, pc'>> \in CodeOrder
               \/ pc' = "exit" /\ (exitCode' # 0 \/ pc \in {"parse", "report"})]_vars

\* a run that went through every stage and reported success
C9_Witness ==
    /\ Exited
    /\ exitCode = 0
    /\ uploadCalls = 1
    /\ remoteCalls = 1
    /\ "=== Success ===" \in out

(* ------------------------------------------------------------------- C10 *)

\* C10 (as stated): after a successful upload, a run that is not interrupted
\* ends with the temporary upload removed exactly when every step up to and
\* including the copy succeeded.
C10_Original ==
    (Exited /\ uploadCode = 0 /\ remoteCalls = 1 /\ ~Interrupted)
        => (~tempExists <=> rstep > PositionOf(CopyOp))

\* C10 (amended): after a successful upload the temporary upload is gone
\* exactly when every step up to and including the cleanup step (rm -rf)
\* succeeded; a run that exits with 0 has removed it; a run in which a
\* provisioning step or the copy step failed leaves it in place and exits
\* with 1 (130 if interrupted).
C10_TempUpload ==
    (uploadCode = 0 /\ cmds # <<>>)
        => /\ ~tempExists <=> rstep > PositionOf(CleanupOp)
           /\ (Exited /\ exitCode = 0) => ~tempExists
           /\ (Exited /\ rfail \in 1..PositionOf(CopyOp))
                 => (tempExists /\ exitCode \in {1, 130} /\ (~Interrupted => exitCode = 1))

\* the copy step failed after a successful upload: exit 1 with the upload left behind
C10_Witness ==
    /\ Exited
    /\ uploadCode = 0
    /\ rfail = PositionOf(CopyOp)
    /\ exitCode = 1
    /\ tempExists

====
